---- MODULE Spec2Model ----
(***************************************************************************)
(* The concurrent fetch-and-normalize pipeline of api/app/downloader.py:   *)
(* EvidenciasDownloader.process_folder derives download tasks from the     *)
(* rows of the manifests, a ThreadPoolExecutor of max_workers threads runs *)
(* download_single_file (and post_process_file) on each task, and          *)
(* print_final_stats reads the shared counters.                            *)
(*                                                                         *)
(* The file system is modelled with POSIX semantics: a directory entry     *)
(* (fs) names an inode (data), open(..., 'wb') truncates the inode an      *)
(* existing entry names, os.rename moves the entry and keeps the inode, so *)
(* a writer that still holds the inode keeps writing into the renamed file.*)
(***************************************************************************)
EXTENDS Integers, Sequences, FiniteSets, TLC

\* ---------------------------------------------------------------- bounds
MaxRows == 2        \* rows of the manifest
MaxPool == 2        \* largest pool width (max_workers) tried
MaxRuns == 2        \* runs of the pipeline against the same output folder
BodyChunks == 2     \* chunks of a non-empty response body

\* ------------------------------------------------------ program constants
DefaultMaxRetries == 3    \* max_retries of EvidenciasDownloader.__init__

\* ------------------------------------------------------------ vocabulary
NoTask == 0
NoInode == 0

\* file_types of prepare_download_tasks: (column, tipo), in the order of the list
file_types ==
    << [column |-> "Archivo asistencia",   tipo |-> "asistencia"],
       [column |-> "Archivo foto inicial", tipo |-> "foto_inicial"],
       [column |-> "Archivo foto final",   tipo |-> "foto_final"] >>

\* Labels and extensions are sequences of one-character strings.
NaN == <<"NaN">>         \* a missing cell of a label column (pd.isna)
JpgExt == <<".", "j", "p", "g">>
HeicExt == <<".", "h", "e", "i", "c">>
PdfExt == <<".", "p", "d", "f">>
TmpExt == <<".", "t", "m", "p">>

\* the suffixes (after the last '.') the URLs of each column end in: scanned
\* attendance sheets and photos
Suffixes ==
    << { Tail(PdfExt), Tail(JpgExt) }, { Tail(HeicExt), Tail(JpgExt) }, { Tail(HeicExt) } >>

\* status_forcelist of the Retry strategy mounted on the session
status_forcelist == {429, 500, 502, 503, 504}

\* (mutant) a .jpg is converted like the others
NeedsConversionOrIsJpg(ext) == ext \in {HeicExt, PdfExt, JpgExt}

\* The extensions post_process_file converts and download_single_file looks
\* up as .jpg
NeedsConversion(ext) == ext \in {HeicExt, PdfExt}

\* ------------------------------------------------------------- the remote
\* What the server does for one URL: `retryable` responses with `status`
\* (a member of status_forcelist) come first, then the response `final`:
\* a status code, or "connerr" for a refused connection. The body of a 200
\* is "full" (BodyChunks chunks), "empty" (no chunk) or "cut" (the stream
\* breaks after the first chunk).
Remotes ==
    { [retryable |-> 0, status |-> 503, final |-> "200", body |-> "full"],
      [retryable |-> 2, status |-> 503, final |-> "200", body |-> "full"],
      [retryable |-> DefaultMaxRetries + 1, status |-> 503, final |-> "200", body |-> "full"],
      [retryable |-> 0, status |-> 503, final |-> "200", body |-> "empty"],
      [retryable |-> 0, status |-> 503, final |-> "200", body |-> "cut"],
      [retryable |-> 0, status |-> 503, final |-> "404", body |-> "empty"],
      [retryable |-> 0, status |-> 503, final |-> "connerr", body |-> "empty"] }

\* The servers tried for the URLs of a run of n tasks. The retries of a GET
\* touch nothing the tasks share, so the runs of several tasks try one server
\* of each kind of response only.
Servers(n) ==
    IF n <= 1 THEN Remotes ELSE { r \in Remotes : r.retryable = 0 /\ r.final # "connerr" }

\* no GET was made yet for the URL
NoRemote == [retryable |-> 0, status |-> 0, final |-> "none", body |-> "none"]

\* (mutant) the retry strategy never reaches the session
RetryTotalNone(retries) == 0

\* Retry(total=max_retries, status_forcelist=[...]): the number of retries the
\* adapter may spend on one GET
RetryTotal(retries) == retries

\* session.get(url) followed by response.raise_for_status(): "response" when a
\* 2xx response reaches the caller, "raise" when a RequestException is raised
\* (retries exhausted on a status of the forcelist or on connection errors, or a
\* final status that raise_for_status refuses).
GetResult(r, retries) ==
    IF r.status \in status_forcelist /\ r.retryable > RetryTotal(retries) THEN "raise"
    ELSE IF r.final = "200" THEN "response"
    ELSE "raise"

\* (mutant) the adapter retries for as long as the status is of the forcelist
GetAttemptsUncapped(r, retries) ==
    IF r.final = "connerr" THEN RetryTotal(retries) + 1 ELSE r.retryable + 1

\* The GET attempts one session.get makes: the first and one per retry;
\* a refused connection is retried until the total is spent.
GetAttempts(r, retries) ==
    IF r.status \in status_forcelist /\ r.retryable > RetryTotal(retries)
    THEN RetryTotal(retries) + 1
    ELSE IF r.final = "connerr" THEN RetryTotal(retries) + 1
    ELSE r.retryable + 1

\* chunks response.iter_content yields before it ends or raises
BodyLen(body) == IF body = "full" THEN BodyChunks ELSE IF body = "cut" THEN 1 ELSE 0

FullData == 0 .. (BodyChunks - 1)

\* ----------------------------------------------------- clean_filename
MaxNameLen == 200

\* replacements of clean_filename
replacements ==
    [c \in {"ó", "ú", "í", "á", "é", "ñ", "ü", "Ó", "Ú", "Í", "Á", "É", "Ñ", "Ü"} |->
        CASE c = "ó" -> "o" [] c = "ú" -> "u" [] c = "í" -> "i" [] c = "á" -> "a"
          [] c = "é" -> "e" [] c = "ñ" -> "n" [] c = "ü" -> "u" [] c = "Ó" -> "O"
          [] c = "Ú" -> "U" [] c = "Í" -> "I" [] c = "Á" -> "A" [] c = "É" -> "E"
          [] c = "Ñ" -> "N" [] c = "Ü" -> "U"]

invalid_chars == {"<", ">", ":", "\"", "/", "\\", "|", "?", "*"}

Placeholder ==
    <<"a", "r", "c", "h", "i", "v", "o", "_", "s", "i", "n", "_", "n", "o", "m", "b", "r", "e">>

\* (mutant) the accented characters are left as they are
CleanCharKeepsAccents(c) == IF c \in invalid_chars THEN "_" ELSE c

\* one character through the replacements and the invalid_chars loops
CleanChar(c) ==
    LET r == IF c \in DOMAIN replacements THEN replacements[c] ELSE c
    IN  IF r \in invalid_chars THEN "_" ELSE r

\* (mutant) the name is never cut
clean_filename_uncut(filename) ==
    IF filename = <<>> \/ filename = NaN THEN Placeholder
    ELSE [i \in 1 .. Len(filename) |-> CleanChar(filename[i])]

clean_filename(filename) ==
    IF filename = <<>> \/ filename = NaN THEN Placeholder
    ELSE LET cleaned == [i \in 1 .. Len(filename) |-> CleanChar(filename[i])]
         IN  IF Len(cleaned) > MaxNameLen THEN SubSeq(cleaned, 1, MaxNameLen) ELSE cleaned

\* -------------------------------------------------- get_file_extension
MaxExtLen == 10

\* A URL cell: whether the cell holds a URL (pd.notna and non-empty after
\* strip), whether the path of the URL has a '.', and what follows the last one.
NoUrl == [present |-> FALSE, dotted |-> FALSE, suffix |-> <<>>]

get_file_extension(url) ==
    IF ~url.present \/ ~url.dotted THEN <<>>
    ELSE LET ext == <<".">> \o url.suffix
         IN  IF Len(ext) <= MaxExtLen THEN ext ELSE <<>>

\* path.split('.')[-1]: what follows the last '.' of the path, whatever it is
AfterLastDot(path) ==
    LET last == CHOOSE i \in DOMAIN path :
                    path[i] = "." /\ \A j \in DOMAIN path : j > i => path[j] # "."
    IN  SubSeq(path, last + 1, Len(path))

\* the URL cell of a URL with this path (urlparse(str(url)).path)
UrlOf(path) ==
    LET dotted == \E i \in DOMAIN path : path[i] = "."
    IN  [present |-> TRUE, dotted |-> dotted,
         suffix |-> IF dotted THEN AfterLastDot(path) ELSE <<>>]

\* ------------------------------------------------------------ the inputs
\* A cell of a URL column: a URL, or NoUrl when the cell is empty
Urls(k) == { [present |-> TRUE, dotted |-> TRUE, suffix |-> s] : s \in Suffixes[k] }
Cells(k) == Urls(k) \cup {NoUrl}
AllCells == UNION { Cells(k) : k \in DOMAIN Suffixes }

\* A row of a manifest: the group, the session and one cell per column of
\* file_types; the rows tried fill one URL column at most.
GroupLabel == <<"G", "r", "u", "p", "o", " ", "Ñ", "1">>
SessionLabel == <<"S", "e", "s", "i", "ó", "n", " ", "3">>

Rows ==
    { [grupo |-> GroupLabel, sesion |-> SessionLabel, cells |-> c] :
        c \in { f \in [1 .. Len(file_types) -> AllCells] :
                  /\ \A k \in DOMAIN f : f[k] \in Cells(k)
                  /\ Cardinality({k \in DOMAIN f : f[k] # NoUrl}) <= 1 } }

RowLists == UNION { [1 .. n -> Rows] : n \in 0 .. MaxRows }

\* An entry of the input folder: its base name and extension, whether it is a
\* regular file, whether read_file gets a table out of it, and the rows of
\* that table
Manifests ==
    { [name |-> "m1", ext |-> ".csv", isfile |-> TRUE, readable |-> TRUE, rows |-> rs] :
        rs \in RowLists }

\* what os.listdir may find in the input folder
FileLists == { <<>> } \cup { << m >> : m \in Manifests }

supported_extensions == {".csv", ".xlsx", ".xls"}

\* (mutant) every regular file of the folder is taken for a manifest
SupportedWhateverTheExtension(entry) == entry.isfile

\* the condition of the comprehension that builds files_to_process
Supported(entry) == entry.isfile /\ entry.ext \in supported_extensions

files_to_process(listing) == SelectSeq(listing, Supported)

\* (mutant) the loop over the files ends at a file that cannot be read
NextFileUnlessNone(df_is_none, index, count) == IF df_is_none THEN count + 1 ELSE index + 1

\* the file the loop of process_folder goes to after "continue" or after the
\* end of its body
NextFile(df_is_none, index, count) == index + 1

\* ------------------------------------------------ prepare_download_tasks
DefaultGroup == <<"Sin_grupo">>
DefaultSession(index) == <<"Sesion_", ToString(index + 1)>>

\* the task of one non-empty cell of row `index` (0-based, as df.iterrows)
TaskOf(row, index, k, output_folder) ==
    LET grupo  == clean_filename(IF row.grupo = NaN THEN DefaultGroup ELSE row.grupo)
        sesion == clean_filename(IF row.sesion = NaN THEN DefaultSession(index)
                                                          ELSE row.sesion)
    IN  [url |-> row.cells[k],
         filename |-> [sesion |-> sesion, tipo |-> file_types[k].tipo,
                       ext |-> get_file_extension(row.cells[k])],
         folder_path |-> << output_folder, grupo >>,
         grupo |-> grupo, sesion |-> sesion, tipo |-> file_types[k].tipo]

\* (mutant) a task is emitted for a column whatever its cell
HasUrlAlways(cell) == TRUE

\* "column_name in row and pd.notna(row[column_name])" and the URL is not
\* empty once stripped
HasUrl(cell) == cell # NoUrl

\* "with self.lock: self.download_stats['total'] += 1", once per task appended
Totalled(stats, tasks) == [stats EXCEPT !.total = @ + Len(tasks)]

RECURSIVE RowTasks(_, _, _, _)
RowTasks(row, index, k, output_folder) ==
    IF k > Len(file_types) THEN <<>>
    ELSE (IF HasUrl(row.cells[k]) THEN << TaskOf(row, index, k, output_folder) >> ELSE <<>>)
         \o RowTasks(row, index, k + 1, output_folder)

RECURSIVE PrepareFrom(_, _, _)
PrepareFrom(rows, i, output_folder) ==
    IF i > Len(rows) THEN <<>>
    ELSE RowTasks(rows[i], i - 1, 1, output_folder) \o PrepareFrom(rows, i + 1, output_folder)

\* tasks returned by prepare_download_tasks(df, output_folder)
prepare_download_tasks(rows, output_folder) == PrepareFrom(rows, 1, output_folder)

\* ----------------------------------------------------------------- paths
\* os.path.join(folder_path, filename), with the '.tmp' the temp file adds
Path(folder, name, ext, tmp) ==
    [folder |-> folder, sesion |-> name.sesion, tipo |-> name.tipo, ext |-> ext, tmp |-> tmp]

FilePath(task) == Path(task.folder_path, task.filename, task.filename.ext, FALSE)
TempPath(task) == Path(task.folder_path, task.filename, task.filename.ext, TRUE)
JpgPath(task)  == Path(task.folder_path, task.filename, JpgExt, FALSE)

VARIABLES
    input_exists,    \* os.path.exists(input_folder)
    files,           \* files_to_process: the manifests of the input folder
    convert_files,   \* self.convert_files
    max_workers,     \* self.max_workers
    max_retries,     \* self.max_retries
    run,             \* which run against the same folders this is
    mainpc,          \* where process_folder is
    file_idx,        \* the manifest the loop of process_folder is at
    all_tasks,       \* all_tasks of process_folder
    download_stats,  \* self.download_stats
    summary,         \* the counters print_final_stats read
    pc,              \* where download_single_file is, per task
    busy,            \* per pool thread: the task it runs
    started,         \* per task: how many times a pool thread took it
    remote,          \* per task: what the server does for its URL
    attempts,        \* per task: GET attempts made in this run
    resp,            \* per task: the body kind of the response being streamed
    pos,             \* per task: chunks written through its handle
    handle,          \* per task: the inode its open temp file names
    outcome,         \* per task: the terminal counter it incremented
    cause,           \* per task: the branch that ended it
    fs,              \* directory entries: path -> inode
    data,            \* inode -> the chunk offsets it holds
    found,           \* the non-empty files the run found in the output folder
    call,            \* a function called on its own: its name and argument
    result,          \* what the call returned
    lock,            \* the threads that hold self.lock
    todo,            \* per thread: the operations it has still to do
    requests,        \* the upload requests the service has received
    loop             \* the request whose handler the event loop runs

vars ==
    << input_exists, files, convert_files, max_workers, max_retries, run, mainpc,
       file_idx, all_tasks, download_stats, summary, pc, busy, started, remote,
       attempts, resp, pos, handle, outcome, cause, fs, data, found, call, result,
       lock, todo, requests, loop >>

\* Spec takes "with self.lock: self.download_stats[key] += 1" as one step of
\* the action that reaches it; LockSpec follows the lock itself
lockvars == << lock, todo >>

\* the variables of the network service (main.py)
servicevars == << requests, loop >>

NoRequest == 0

\* the variables of a function called on its own
callvars == << call, result >>

NoCall == [fn |-> "none", arg |-> <<>>]
\* what the function returned, and what it returned when applied to that
NoResult == [done |-> FALSE, value |-> <<>>, applied |-> 0, again |-> <<>>]

config == << input_exists, files, convert_files, max_workers, max_retries >>

\* ------------------------------------------------------------- counters
ZeroStats ==
    [total |-> 0, successful |-> 0, failed |-> 0, skipped |-> 0,
     converted |-> 0, conversion_failed |-> 0]

\* with self.lock: self.download_stats[key] += 1
Increment(stats, key) == [stats EXCEPT ![key] = @ + 1]


\* ------------------------------------------------------------ file system
Exists(f, p) == p \in DOMAIN f

\* os.path.exists(p) and os.path.getsize(p) > 0
ExistsNonEmpty(f, d, p) == p \in DOMAIN f /\ d[f[p]] # {}

\* the inodes a directory entry or an open handle still names
Live(f, h) == ({ f[p] : p \in DOMAIN f } \cup { h[t] : t \in DOMAIN h }) \ {NoInode}

\* inodes nothing names any more are freed
Reclaim(d, f, h) == [i \in (DOMAIN d \cap Live(f, h)) |-> d[i]]

FreshInode(d) == CHOOSE i \in 1 .. (Cardinality(DOMAIN d) + 1) : i \notin DOMAIN d

\* os.remove(p)
Unlink(f, p) == [q \in DOMAIN f \ {p} |-> f[q]]

\* os.rename(src, dst)
Renamed(f, src, dst) == [q \in (DOMAIN f \ {src}) \cup {dst} |-> IF q = dst THEN f[src] ELSE f[q]]

\* the entry open(p, 'wb') leaves: the inode p names already, or a new one
Opened(f, d, p) == IF p \in DOMAIN f THEN f[p] ELSE FreshInode(d)

Entered(f, p, i) == [q \in DOMAIN f \cup {p} |-> IF q = p THEN i ELSE f[q]]

Stored(d, i, chunks) == [j \in DOMAIN d \cup {i} |-> IF j = i THEN chunks ELSE d[j]]

\* ------------------------------------------------- download_single_file
\* original_ext = os.path.splitext(filename)[1].lower()
original_ext(task) == task.filename.ext

\* (mutant) an original that is there is enough, whatever its type
SkipOriginalWhateverTheType(task, conv, f, d) == ExistsNonEmpty(f, d, FilePath(task))

\* "Verificar archivo original"
SkipOriginal(task, conv, f, d) ==
    /\ ExistsNonEmpty(f, d, FilePath(task))
    /\ (~conv \/ ~NeedsConversion(original_ext(task)))

\* (mutant) the check looks for the original where the converted file is
SkipConvertedAtOriginal(task, conv, f, d) ==
    /\ conv
    /\ NeedsConversion(original_ext(task))
    /\ ExistsNonEmpty(f, d, FilePath(task))

\* "Si el archivo original es HEIC o PDF, verificar si ya existe la versión JPG"
SkipConverted(task, conv, f, d) ==
    /\ conv
    /\ NeedsConversion(original_ext(task))
    /\ ExistsNonEmpty(f, d, JpgPath(task))

\* (mutant) the check forgets the size of the temp file
DownloadMissing(f, d, temp_path) == ~Exists(f, temp_path)

\* "Verificar descarga exitosa": the temp file is missing or has no byte
DownloadIncomplete(f, d, temp_path) ==
    ~Exists(f, temp_path) \/ d[f[temp_path]] = {}

\* (mutant) only the RequestException clause is there
HandlerWithoutCatchAll(exception) ==
    IF exception = "RequestException" THEN "failed" ELSE "raised"

\* the counter the except clauses of download_single_file increment
HandlerOutcome(exception) ==
    IF exception \in {"RequestException", "Exception"} THEN "failed" ELSE "raised"

\* ---------------------------------------------------------- worker pool
InProgress == { t \in DOMAIN pc : pc[t] \notin {"queued", "done"} }

IdleThreads == { w \in DOMAIN busy : busy[w] = NoTask }

\* (mutant) a work item starts whether or not a pool thread is free
CanStartAlways(b) == TRUE

\* a pool thread is free to take the next work item
CanStart(b) == \E w \in DOMAIN b : b[w] = NoTask

\* the idle thread that takes the item (the lowest, the threads being alike)
Taken(b, t) ==
    IF \E v \in DOMAIN b : b[v] = NoTask
    THEN LET w == CHOOSE w \in DOMAIN b : b[w] = NoTask /\ \A v \in DOMAIN b : b[v] = NoTask => w <= v
         IN  [b EXCEPT ![w] = t]
    ELSE b

\* (mutant) a thread that ran a work item takes no other
ReleasedNever(b, t) == b

\* the thread that ran work item t is idle again
Released(b, t) == [w \in DOMAIN b |-> IF b[w] = t THEN NoTask ELSE b[w]]

\* (mutant) the executor is left without waiting for its futures
PoolNotAwaited(p) == TRUE

\* the executor has shut down: every future is done
PoolJoined(p) == \A t \in DOMAIN p : p[t] = "done"

\* ------------------------------------------------------------------ Init
\* the downloader after __init__, before process_folder
Constructed ==
    /\ run = 1
    /\ mainpc = "start"
    /\ file_idx = 1
    /\ all_tasks = <<>>
    /\ download_stats = ZeroStats
    /\ summary = [read |-> FALSE, stats |-> ZeroStats]
    /\ pc = <<>>
    /\ busy = [w \in 1 .. max_workers |-> NoTask]
    /\ started = <<>>
    /\ remote = <<>>
    /\ attempts = <<>>
    /\ resp = <<>>
    /\ pos = <<>>
    /\ handle = <<>>
    /\ outcome = <<>>
    /\ cause = <<>>
    /\ found = {}
    /\ call = NoCall
    /\ result = NoResult
    /\ lock = {}
    /\ requests = <<>>
    /\ loop = NoRequest
    /\ todo = <<>>

\* the output folder is new
EmptyOutput == fs = <<>> /\ data = <<>>

Init ==
    /\ input_exists \in BOOLEAN
    /\ files \in (IF input_exists THEN FileLists ELSE { <<>> })
    /\ convert_files \in BOOLEAN
    /\ max_workers \in 1 .. MaxPool
    /\ max_retries = DefaultMaxRetries
    /\ Constructed
    /\ EmptyOutput

taskvars == << pc, busy, started, remote, attempts, resp, pos, handle, outcome, cause >>

\* ---------------------------------------------------------- process_folder
\* the checks before the loop: the input folder exists and holds supported files
ProcessFolder ==
    /\ mainpc = "start"
    /\ mainpc' = IF input_exists /\ files_to_process(files) # <<>> THEN "files" ELSE "done"
    /\ UNCHANGED << config, callvars, lockvars, servicevars, run, file_idx, all_tasks, download_stats, summary, taskvars, fs, data, found >>

\* one turn of "for file_path in files_to_process"
ProcessFile ==
    /\ mainpc = "files"
    /\ file_idx <= Len(files_to_process(files))
    /\ LET m == files_to_process(files)[file_idx]
           tasks == IF m.readable THEN prepare_download_tasks(m.rows, m.name) ELSE <<>>
       IN  /\ all_tasks' = all_tasks \o tasks
           /\ download_stats' = Totalled(download_stats, tasks)
           /\ file_idx' = NextFile(~m.readable, file_idx, Len(files_to_process(files)))
    /\ UNCHANGED << config, callvars, lockvars, servicevars, run, mainpc, summary, taskvars, fs, data, found >>

\* "if all_tasks:" download_with_threads submits every task, else the run ends
Dispatch ==
    /\ mainpc = "files"
    /\ file_idx > Len(files_to_process(files))
    /\ LET n == Len(all_tasks)
       IN  /\ mainpc' = IF n > 0 THEN "pool" ELSE "done"
           /\ pc' = [t \in 1 .. n |-> "queued"]
           /\ started' = [t \in 1 .. n |-> 0]
           /\ remote' = IF run = 1 THEN [t \in 1 .. n |-> NoRemote] ELSE remote
           /\ attempts' = [t \in 1 .. n |-> 0]
           /\ resp' = [t \in 1 .. n |-> "none"]
           /\ pos' = [t \in 1 .. n |-> 0]
           /\ handle' = [t \in 1 .. n |-> NoInode]
           /\ outcome' = [t \in 1 .. n |-> "none"]
           /\ cause' = [t \in 1 .. n |-> "none"]
    /\ UNCHANGED << config, callvars, lockvars, servicevars, run, file_idx, all_tasks, download_stats, summary, busy, fs, data, found >>

\* leaving "with ThreadPoolExecutor(...)": every task is done
Join ==
    /\ mainpc = "pool"
    /\ PoolJoined(pc)
    /\ mainpc' = "stats"
    /\ UNCHANGED << config, callvars, lockvars, servicevars, run, file_idx, all_tasks, download_stats, summary, taskvars, fs, data, found >>

PrintFinalStats ==
    /\ mainpc = "stats"
    /\ summary' = [read |-> TRUE, stats |-> download_stats]
    /\ mainpc' = "done"
    /\ UNCHANGED << config, callvars, lockvars, servicevars, run, file_idx, all_tasks, download_stats, taskvars, fs, data, found >>

\* a new EvidenciasDownloader runs process_folder on the same folders
NewRun ==
    /\ mainpc = "done"
    /\ run < MaxRuns
    /\ run' = run + 1
    /\ mainpc' = "start"
    /\ file_idx' = 1
    /\ all_tasks' = <<>>
    /\ download_stats' = ZeroStats
    /\ summary' = [read |-> FALSE, stats |-> ZeroStats]
    /\ pc' = <<>>
    /\ started' = <<>>
    /\ attempts' = <<>>
    /\ resp' = <<>>
    /\ pos' = <<>>
    /\ handle' = <<>>
    /\ outcome' = <<>>
    /\ cause' = <<>>
    /\ found' = { p \in DOMAIN fs : data[fs[p]] # {} }
    /\ UNCHANGED << config, callvars, lockvars, servicevars, busy, remote, fs, data >>

\* ------------------------------------------------- download_single_file
\* (mutant) the failure branches forget their counter
CountedUnlessFailed(stats, out) ==
    IF out \in {"successful", "skipped"} THEN Increment(stats, out) ELSE stats

\* the counters after a task ended with `out` (an exception that escaped the
\* function increments none)
Counted(stats, out) ==
    IF out \in {"successful", "failed", "skipped"} THEN Increment(stats, out) ELSE stats

\* download_single_file returns: the pool thread is free again
EndTask(t, out, why) ==
    /\ pc' = [pc EXCEPT ![t] = "done"]
    /\ busy' = Released(busy, t)
    /\ outcome' = [outcome EXCEPT ![t] = out]
    /\ cause' = [cause EXCEPT ![t] = why]
    /\ resp' = [resp EXCEPT ![t] = "none"]
    /\ pos' = [pos EXCEPT ![t] = 0]
    /\ handle' = [handle EXCEPT ![t] = NoInode]

orch == << run, mainpc, file_idx, all_tasks, summary >>

\* A pool thread takes the next work item and runs download_single_file up to
\* the GET: the two "already exists" checks and os.makedirs.
StartTask(t) ==
    /\ mainpc = "pool"
    /\ pc[t] = "queued"
    /\ \A u \in 1 .. (t - 1) : pc[u] # "queued"
    /\ CanStart(busy)
    /\ started' = [started EXCEPT ![t] = @ + 1]
    /\ IF SkipConverted(all_tasks[t], convert_files, fs, data)
       THEN /\ EndTask(t, "skipped", "converted_exists")
            /\ download_stats' = Counted(download_stats, "skipped")
       ELSE IF SkipOriginal(all_tasks[t], convert_files, fs, data)
       THEN /\ EndTask(t, "skipped", "exists")
            /\ download_stats' = Counted(download_stats, "skipped")
       ELSE /\ pc' = [pc EXCEPT ![t] = "get"]
            /\ busy' = Taken(busy, t)
            /\ UNCHANGED << download_stats, outcome, cause, resp, pos, handle >>
    /\ UNCHANGED << config, callvars, lockvars, servicevars, orch, remote, attempts, fs, data, found >>

\* response = self.session.get(url, stream=True, ...); response.raise_for_status()
Get(t) ==
    /\ pc[t] = "get"
    /\ \E r \in (IF remote[t] = NoRemote THEN Servers(Len(all_tasks)) ELSE {remote[t]}) :
        /\ remote' = [remote EXCEPT ![t] = r]
        /\ attempts' = [attempts EXCEPT ![t] = @ + GetAttempts(r, max_retries)]
        /\ IF GetResult(r, max_retries) = "response"
           THEN /\ pc' = [pc EXCEPT ![t] = "open"]
                /\ resp' = [resp EXCEPT ![t] = r.body]
                /\ UNCHANGED << download_stats, busy, outcome, cause, pos, handle >>
           ELSE /\ EndTask(t, HandlerOutcome("RequestException"), "transport")
                /\ download_stats' = Counted(download_stats, HandlerOutcome("RequestException"))
    /\ UNCHANGED << config, callvars, lockvars, servicevars, orch, started, fs, data, found >>

\* with open(temp_path, 'wb') as f
OpenTemp(t) ==
    /\ pc[t] = "open"
    /\ LET temp_path == TempPath(all_tasks[t])
           i == Opened(fs, data, temp_path)
       IN  /\ fs' = Entered(fs, temp_path, i)
           /\ data' = Stored(data, i, {})
           /\ handle' = [handle EXCEPT ![t] = i]
    /\ pc' = [pc EXCEPT ![t] = "write"]
    /\ pos' = [pos EXCEPT ![t] = 0]
    /\ UNCHANGED << config, callvars, lockvars, servicevars, orch, download_stats, busy, started, remote, attempts, resp,
                    outcome, cause, found >>

\* f.write(chunk) for the next chunk of response.iter_content
WriteChunk(t) ==
    /\ pc[t] = "write"
    /\ pos[t] < BodyLen(resp[t])
    /\ data' = Stored(data, handle[t], data[handle[t]] \cup {pos[t]})
    /\ pos' = [pos EXCEPT ![t] = @ + 1]
    /\ UNCHANGED << config, callvars, lockvars, servicevars, orch, download_stats, pc, busy, started, remote, attempts, resp,
                    handle, outcome, cause, fs, found >>

\* f.write(chunk) raises OSError (disk full): the file is closed and
\* "except Exception" counts the task
WriteFails(t) ==
    /\ pc[t] = "write"
    /\ pos[t] < BodyLen(resp[t])
    /\ EndTask(t, HandlerOutcome("Exception"), "write_error")
    /\ download_stats' = Counted(download_stats, HandlerOutcome("Exception"))
    /\ data' = Reclaim(data, fs, handle')
    /\ UNCHANGED << config, callvars, lockvars, servicevars, orch, started, remote, attempts, fs, found >>

\* response.iter_content raises in mid-stream: the file is closed and
\* "except requests.exceptions.RequestException" counts the task
StreamBreaks(t) ==
    /\ pc[t] = "write"
    /\ resp[t] = "cut"
    /\ pos[t] = BodyLen(resp[t])
    /\ EndTask(t, HandlerOutcome("RequestException"), "stream_cut")
    /\ download_stats' = Counted(download_stats, HandlerOutcome("RequestException"))
    /\ data' = Reclaim(data, fs, handle')
    /\ UNCHANGED << config, callvars, lockvars, servicevars, orch, started, remote, attempts, fs, found >>

\* the stream ended, the file is closed: "Verificar descarga exitosa"
Verify(t) ==
    /\ pc[t] = "write"
    /\ resp[t] # "cut"
    /\ pos[t] = BodyLen(resp[t])
    /\ LET temp_path == TempPath(all_tasks[t])
       IN  IF DownloadIncomplete(fs, data, temp_path)
           THEN /\ fs' = IF Exists(fs, temp_path) THEN Unlink(fs, temp_path) ELSE fs
                /\ EndTask(t, "failed", IF Exists(fs, temp_path) THEN "empty" ELSE "temp_missing")
                /\ download_stats' = Counted(download_stats, "failed")
                /\ data' = Reclaim(data, fs', handle')
           ELSE /\ pc' = [pc EXCEPT ![t] = "rename"]
                /\ handle' = [handle EXCEPT ![t] = NoInode]
                /\ data' = Reclaim(data, fs, handle')
                /\ UNCHANGED << download_stats, busy, resp, pos, outcome, cause, fs >>
    /\ UNCHANGED << config, callvars, lockvars, servicevars, orch, started, remote, attempts, found >>

\* os.rename(temp_path, file_path)
Rename(t) ==
    /\ pc[t] = "rename"
    /\ LET temp_path == TempPath(all_tasks[t])
           file_path == FilePath(all_tasks[t])
       IN  IF Exists(fs, temp_path)
           THEN /\ fs' = Renamed(fs, temp_path, file_path)
                /\ data' = Reclaim(data, fs', handle)
                /\ pc' = [pc EXCEPT ![t] = "log"]
                /\ UNCHANGED << download_stats, busy, resp, pos, handle, outcome, cause >>
           ELSE /\ EndTask(t, HandlerOutcome("Exception"), "rename_error")
                /\ download_stats' = Counted(download_stats, HandlerOutcome("Exception"))
                /\ UNCHANGED << fs, data >>
    /\ UNCHANGED << config, callvars, lockvars, servicevars, orch, started, remote, attempts, found >>

\* the log line "Descargado: ..." reads os.path.getsize(file_path)
LogSize(t) ==
    /\ pc[t] = "log"
    /\ IF Exists(fs, FilePath(all_tasks[t]))
       THEN /\ pc' = [pc EXCEPT ![t] = "post"]
            /\ UNCHANGED << download_stats, busy, resp, pos, handle, outcome, cause >>
       ELSE /\ EndTask(t, HandlerOutcome("Exception"), "getsize_error")
            /\ download_stats' = Counted(download_stats, HandlerOutcome("Exception"))
    /\ UNCHANGED << config, callvars, lockvars, servicevars, orch, started, remote, attempts, fs, data, found >>

\* --------------------------------------------------- post_process_file
\* (mutant) a conversion error is escalated to a failure of the task
ConversionErrorAsFailure(stats) ==
    Increment(Increment(stats, "conversion_failed"), "failed")

\* what post_process_file counts when a conversion did not complete
ConversionError(stats) == Increment(stats, "conversion_failed")

\* (mutant) a completed conversion is counted under both conversion counters
ConversionDoneAndFailed(stats) ==
    Increment(Increment(stats, "converted"), "conversion_failed")

\* what post_process_file counts when the .jpg is saved and the original removed
ConversionDone(stats) == Increment(stats, "converted")

\* (mutant) post_process_file does not look at self.convert_files
ConvertsWhateverTheFlag(conv, ext) == NeedsConversion(ext)

\* post_process_file converts: self.convert_files and file_ext is '.heic' or '.pdf'
Converts(conv, ext) == conv /\ NeedsConversion(ext)

\* final_path = self.post_process_file(file_path), up to the conversion, and
\* "successful" when there is nothing more to do. convert_heic_to_jpg and
\* convert_pdf_to_jpg decode the file and save the .jpg; the decoder may refuse
\* any content, and refuses a missing file.
PostProcess(t) ==
    /\ pc[t] = "post"
    /\ LET task == all_tasks[t]
           jpg_path == JpgPath(task)
       IN  IF ~Converts(convert_files, original_ext(task))
           THEN /\ EndTask(t, "successful", "downloaded")
                /\ download_stats' = Counted(download_stats, "successful")
                /\ UNCHANGED << fs, data >>
           ELSE \E decoded \in { d \in BOOLEAN : d => Exists(fs, FilePath(task)) } :
                   IF decoded
                   THEN /\ fs' = Entered(fs, jpg_path, Opened(fs, data, jpg_path))
                        /\ data' = Stored(data, Opened(fs, data, jpg_path), FullData)
                        /\ pc' = [pc EXCEPT ![t] = "remove"]
                        /\ UNCHANGED << download_stats, busy, resp, pos, handle, outcome, cause >>
                   ELSE /\ EndTask(t, "successful", "conversion_failed")
                        /\ download_stats' = Counted(ConversionError(download_stats), "successful")
                        /\ UNCHANGED << fs, data >>
    /\ UNCHANGED << config, callvars, lockvars, servicevars, orch, started, remote, attempts, found >>

\* os.remove(file_path) after a conversion, then the counters
RemoveOriginal(t) ==
    /\ pc[t] = "remove"
    /\ LET file_path == FilePath(all_tasks[t])
       IN  IF Exists(fs, file_path)
           THEN /\ fs' = Unlink(fs, file_path)
                /\ data' = Reclaim(data, fs', handle)
                /\ EndTask(t, "successful", "converted")
                /\ download_stats' = Counted(ConversionDone(download_stats), "successful")
           ELSE /\ EndTask(t, "successful", "conversion_failed")
                /\ download_stats' = Counted(ConversionError(download_stats), "successful")
                /\ UNCHANGED << fs, data >>
    /\ UNCHANGED << config, callvars, lockvars, servicevars, orch, started, remote, attempts, found >>

\* ------------------------------------------------------------------ Next
Next ==
    \/ ProcessFolder
    \/ ProcessFile
    \/ Dispatch
    \/ Join
    \/ PrintFinalStats
    \/ NewRun
    \/ \E t \in DOMAIN pc : StartTask(t)
    \/ \E t \in DOMAIN pc : Get(t)
    \/ \E t \in DOMAIN pc : OpenTemp(t)
    \/ \E t \in DOMAIN pc : WriteChunk(t)
    \/ \E t \in DOMAIN pc : WriteFails(t)
    \/ \E t \in DOMAIN pc : StreamBreaks(t)
    \/ \E t \in DOMAIN pc : Verify(t)
    \/ \E t \in DOMAIN pc : Rename(t)
    \/ \E t \in DOMAIN pc : LogSize(t)
    \/ \E t \in DOMAIN pc : PostProcess(t)
    \/ \E t \in DOMAIN pc : RemoveOriginal(t)

Spec == Init /\ [][Next]_vars

\* ------------------------------------------------- scheduling
\* the steps of the main thread inside process_folder
Orchestrate ==
    \/ ProcessFolder
    \/ ProcessFile
    \/ Dispatch
    \/ Join
    \/ PrintFinalStats

\* the steps of the pool thread that runs work item t
Work(t) ==
    /\ t \in DOMAIN pc
    /\ \/ StartTask(t)
       \/ Get(t)
       \/ OpenTemp(t)
       \/ WriteChunk(t)
       \/ WriteFails(t)
       \/ StreamBreaks(t)
       \/ Verify(t)
       \/ Rename(t)
       \/ LogSize(t)
       \/ PostProcess(t)
       \/ RemoveOriginal(t)

\* every row of the manifest sends one file, the first row a foto inicial
FullManifests ==
    { m \in Manifests :
        /\ Len(m.rows) = MaxRows
        /\ \A i \in 1 .. MaxRows : \E k \in DOMAIN file_types : m.rows[i].cells[k] # NoUrl
        /\ m.rows[1].cells[2] # NoUrl }

\* a run with conversion on whose manifest gives as many tasks as the largest
\* pool has threads, and more than the smallest
LiveInit ==
    /\ input_exists = TRUE
    /\ files \in { << m >> : m \in FullManifests }
    /\ convert_files = TRUE
    /\ max_workers \in 1 .. MaxPool
    /\ max_retries = DefaultMaxRetries
    /\ Constructed
    /\ EmptyOutput

\* The main thread and every pool thread keep running (the interpreter
\* schedules each thread that can run), and a GET returns or raises within its
\* timeout, so a step that stays possible is taken. Starting a new run is up
\* to the caller.
LiveSpec ==
    /\ LiveInit
    /\ [][Next]_vars
    /\ WF_vars(Orchestrate)
    /\ \A t \in 1 .. MaxRows : WF_vars(Work(t))

\* ------------------------------------------------- input folders of all kinds
MaxFiles == 3       \* entries of the input folder

\* the rows of the manifests of these folders: one with an initial photo, one
\* with none of the columns of file_types
FolderRows ==
    { [grupo |-> GroupLabel, sesion |-> SessionLabel, cells |-> c] :
        c \in { << NoUrl, [present |-> TRUE, dotted |-> TRUE, suffix |-> Tail(HeicExt)], NoUrl >>,
                << NoUrl, NoUrl, NoUrl >> } }

\* a file no delimiter, encoding or engine of read_file gets a table from; a
\* text file and a directory, which are not manifests whatever they hold; and
\* manifests of one row
FolderEntries ==
    { [name |-> "b", ext |-> ".csv", isfile |-> TRUE, readable |-> FALSE, rows |-> <<>>] }
    \cup { [name |-> "t", ext |-> ".txt", isfile |-> TRUE, readable |-> TRUE, rows |-> << r >>] :
             r \in { q \in FolderRows : \E k \in DOMAIN q.cells : q.cells[k] # NoUrl } }
    \cup { [name |-> "d", ext |-> ".csv", isfile |-> FALSE, readable |-> FALSE, rows |-> <<>>] }
    \cup { [name |-> n, ext |-> (IF n = "m1" THEN ".csv" ELSE ".xlsx"), isfile |-> TRUE,
            readable |-> TRUE, rows |-> << r >>] : n \in {"m1", "m2"}, r \in FolderRows }

\* the folders: entries of different names
Folders ==
    UNION { { l \in [1 .. n -> FolderEntries] :
                \A i, j \in 1 .. n : i # j => l[i].name # l[j].name } : n \in 0 .. MaxFiles }

\* the folders of one manifest of one row
OneRowFolders == { << m >> : m \in { q \in Manifests : Len(q.rows) = 1 } }

\* What the output folder holds before the run. For a folder of one manifest
\* that derives one task: nothing, an empty file or a complete one, at the
\* path of the task and at its .jpg path. For the other folders: nothing.
OutputsBefore(listing) ==
    LET tasks == IF listing \in OneRowFolders
                 THEN prepare_download_tasks(listing[1].rows, listing[1].name) ELSE <<>>
    IN  IF Len(tasks) # 1 THEN { [fs |-> <<>>, data |-> <<>>] }
        ELSE LET file_path == FilePath(tasks[1])
                 paths == { file_path, JpgPath(tasks[1]) }
                 Inode(q) == IF q = file_path THEN 1 ELSE 2
             IN  { [fs |-> [q \in { r \in paths : c[r] # "absent" } |-> Inode(q)],
                    data |-> [i \in { Inode(r) : r \in { r \in paths : c[r] # "absent" } } |->
                                 IF \E r \in paths : Inode(r) = i /\ c[r] = "full"
                                 THEN FullData ELSE {}]] :
                   c \in [paths -> {"absent", "empty", "full"}] }

FolderInit ==
    /\ input_exists \in BOOLEAN
    /\ files \in (IF input_exists THEN Folders \cup OneRowFolders ELSE { <<>> })
    /\ convert_files \in BOOLEAN
    /\ max_workers = 1
    /\ max_retries = DefaultMaxRetries
    /\ Constructed
    /\ \E before \in OutputsBefore(files) : fs = before.fs /\ data = before.data

FolderSpec == FolderInit /\ [][Next]_vars

\* ------------------------------------------- functions called on their own
MaxLabelLen == 2    \* length of the short labels tried

\* the characters of the labels tried: those clean_filename replaces, and some
\* it keeps
LabelChars == invalid_chars \cup DOMAIN replacements \cup {"a", "_", " "}

Fill(n, c) == [i \in 1 .. n |-> c]

\* labels around the length clean_filename cuts at
LongLabels ==
    { Fill(n, c) : n \in {MaxNameLen - 1, MaxNameLen, MaxNameLen + 1, 2 * MaxNameLen},
                   c \in {"a", "/", "ó"} }
    \cup { Fill(MaxNameLen, "a") \o <<c>> : c \in {"/", "ó"} }

\* the labels tried: the empty one, a missing one, short ones and long ones
Labels ==
    { <<>>, NaN } \cup UNION { [1 .. n -> LabelChars] : n \in 1 .. MaxLabelLen } \cup LongLabels

\* the rows prepare_download_tasks is tried on: every way to fill the three
\* columns, with and without the group and the session
DeriveRows ==
    { [grupo |-> g, sesion |-> n, cells |-> c] :
        g \in {GroupLabel, NaN}, n \in {SessionLabel, NaN},
        c \in { f \in [1 .. Len(file_types) -> AllCells] : \A k \in DOMAIN f : f[k] \in Cells(k) } }

DeriveTables == UNION { [1 .. n -> DeriveRows] : n \in 0 .. MaxRows }

\* the files post_process_file is tried on: a download of every extension of
\* Suffixes, and one without extension
DownloadedFiles ==
    { Path(<< "m1", clean_filename(GroupLabel) >>,
           [sesion |-> clean_filename(SessionLabel), tipo |-> file_types[k].tipo], ext, FALSE) :
        k \in DOMAIN file_types, ext \in {JpgExt, HeicExt, PdfExt, <<>>} }

MaxPathLen == 4     \* length of the short URL paths tried

PathChars == {"a", ".", "/"}

\* the URL paths tried: short ones, and ones whose last '.' is followed by
\* about MaxExtLen characters
UrlPaths ==
    UNION { [1 .. n -> PathChars] : n \in 0 .. MaxPathLen }
    \cup { <<"/", "a", ".">> \o Fill(n, "a") :
             n \in {MaxExtLen - 2, MaxExtLen - 1, MaxExtLen, MaxExtLen + 1} }

Calls ==
    { [fn |-> "clean_filename", arg |-> l] : l \in Labels }
    \cup { [fn |-> "prepare_download_tasks", arg |-> rows] : rows \in DeriveTables }
    \cup { [fn |-> "post_process_file", arg |-> p] : p \in DownloadedFiles }
    \cup { [fn |-> "get_file_extension", arg |-> p] : p \in UrlPaths }

\* nothing but the call happens
Quiet ==
    /\ input_exists = FALSE
    /\ files = <<>>
    /\ max_workers = 1
    /\ max_retries = DefaultMaxRetries
    /\ run = 1
    /\ mainpc = "start"
    /\ file_idx = 1
    /\ all_tasks = <<>>
    /\ download_stats = ZeroStats
    /\ summary = [read |-> FALSE, stats |-> ZeroStats]
    /\ pc = <<>>
    /\ busy = [w \in 1 .. 1 |-> NoTask]
    /\ started = <<>>
    /\ remote = <<>>
    /\ attempts = <<>>
    /\ resp = <<>>
    /\ pos = <<>>
    /\ handle = <<>>
    /\ outcome = <<>>
    /\ cause = <<>>
    /\ found = {}
    /\ lock = {}
    /\ requests = <<>>
    /\ loop = NoRequest
    /\ todo = <<>>

\* post_process_file is called on a file that is there, complete
CallInit ==
    /\ Quiet
    /\ call \in Calls
    /\ result = NoResult
    /\ convert_files \in (IF call.fn = "post_process_file" THEN BOOLEAN ELSE {FALSE})
    /\ fs = IF call.fn = "post_process_file" THEN Entered(<<>>, call.arg, 1) ELSE <<>>
    /\ data = IF call.fn = "post_process_file" THEN Stored(<<>>, 1, FullData) ELSE <<>>

\* self.clean_filename(filename)
CleanFilename ==
    /\ call.fn = "clean_filename"
    /\ ~result.done
    /\ result' = [result EXCEPT !.done = TRUE, !.value = clean_filename(call.arg), !.applied = 1]
    /\ UNCHANGED << config, orch, download_stats, taskvars, fs, data, found, call, lockvars, servicevars >>

\* the file post_process_file is given: the argument, then what it returned
Given == IF result.applied = 0 THEN call.arg ELSE result.value

Returned(path) ==
    result' = IF result.applied = 0
              THEN [result EXCEPT !.done = TRUE, !.value = path, !.applied = 1]
              ELSE [result EXCEPT !.again = path, !.applied = 2]

\* self.post_process_file(file_path), and once more on the path it returned
PostProcessFile ==
    /\ call.fn = "post_process_file"
    /\ result.applied < 2
    /\ LET file_path == Given
           jpg_path == [file_path EXCEPT !.ext = JpgExt]
       IN  IF ~Converts(convert_files, file_path.ext)
           THEN /\ Returned(file_path)
                /\ UNCHANGED << download_stats, fs, data >>
           ELSE \E decoded \in { d \in BOOLEAN : d => Exists(fs, file_path) } :
                   IF decoded
                   THEN /\ fs' = Unlink(Entered(fs, jpg_path, Opened(fs, data, jpg_path)), file_path)
                        /\ data' = Reclaim(Stored(data, Opened(fs, data, jpg_path), FullData), fs', <<>>)
                        /\ download_stats' = ConversionDone(download_stats)
                        /\ Returned(jpg_path)
                   ELSE /\ download_stats' = ConversionError(download_stats)
                        /\ Returned(file_path)
                        /\ UNCHANGED << fs, data >>
    /\ UNCHANGED << config, orch, taskvars, found, call, lockvars, servicevars >>

\* self.prepare_download_tasks(df, file_output_folder)
PrepareDownloadTasks ==
    /\ call.fn = "prepare_download_tasks"
    /\ ~result.done
    /\ LET tasks == prepare_download_tasks(call.arg, "m1")
       IN  /\ result' = [result EXCEPT !.done = TRUE, !.value = tasks, !.applied = 1]
           /\ download_stats' = Totalled(download_stats, tasks)
    /\ UNCHANGED << config, orch, taskvars, fs, data, found, call, lockvars, servicevars >>

\* ext = self.get_file_extension(url), for a URL with the path call.arg
GetFileExtension ==
    /\ call.fn = "get_file_extension"
    /\ ~result.done
    /\ result' = [result EXCEPT !.done = TRUE,
                                !.value = get_file_extension(UrlOf(call.arg)),
                                !.applied = 1]
    /\ UNCHANGED << config, orch, download_stats, taskvars, fs, data, found, call, lockvars, servicevars >>

CallNext ==
    \/ CleanFilename
    \/ PrepareDownloadTasks
    \/ PostProcessFile
    \/ GetFileExtension

CallSpec == CallInit /\ [][CallNext]_vars

\* ------------------------------------------------------------ self.lock
\* The operations of a thread, as far as the lock is concerned: "io" (a
\* request, a file operation, a log line), "acquire" and "release" (entering
\* and leaving "with self.lock:"), and the key of a counter ("+= 1").
CounterKeys == DOMAIN ZeroStats

\* one "with self.lock: self.download_stats[key] += 1"
Locked(key) == << "acquire", key, "release" >>

\* the ways through download_single_file and post_process_file
CodePaths ==
    { [cause |-> "converted_exists",  ops |-> << "io" >> \o Locked("skipped")],
      [cause |-> "exists",            ops |-> << "io" >> \o Locked("skipped")],
      [cause |-> "downloaded",        ops |-> << "io" >> \o Locked("successful")],
      [cause |-> "converted",
       ops |-> << "io", "io" >> \o Locked("converted") \o Locked("successful")],
      [cause |-> "conversion_failed",
       ops |-> << "io", "io" >> \o Locked("conversion_failed") \o Locked("successful")] }
    \cup { [cause |-> c, ops |-> << "io" >> \o Locked("failed")] :
             c \in {"empty", "temp_missing", "transport", "stream_cut", "write_error",
                    "rename_error", "getsize_error"} }

\* prepare_download_tasks for n tasks, on the main thread (thread 0)
RECURSIVE PrepareOps(_)
PrepareOps(n) == IF n = 0 THEN <<>> ELSE Locked("total") \o PrepareOps(n - 1)

\* (mutant) the lock is taken whoever holds it
CanAcquireAlways(l) == TRUE

\* threading.Lock: acquire goes through when no thread holds the lock
CanAcquire(l) == l = {}

LockInit ==
    /\ input_exists = TRUE
    /\ files = <<>>
    /\ convert_files = TRUE
    /\ max_workers \in 1 .. MaxPool
    /\ max_retries = DefaultMaxRetries
    /\ run = 1
    /\ mainpc = "files"
    /\ file_idx = 1
    /\ all_tasks = <<>>
    /\ download_stats = ZeroStats
    /\ summary = [read |-> FALSE, stats |-> ZeroStats]
    /\ \E n \in 1 .. MaxRows :
          /\ pc = [t \in 1 .. n |-> "queued"]
          /\ started = [t \in 1 .. n |-> 0]
          /\ cause = [t \in 1 .. n |-> "none"]
          /\ todo = [t \in 0 .. n |-> IF t = 0 THEN << "io" >> \o PrepareOps(n) ELSE <<>>]
    /\ busy = [w \in 1 .. max_workers |-> NoTask]
    /\ remote = <<>>
    /\ attempts = <<>>
    /\ resp = <<>>
    /\ pos = <<>>
    /\ handle = <<>>
    /\ outcome = <<>>
    /\ fs = <<>>
    /\ data = <<>>
    /\ found = {}
    /\ call = NoCall
    /\ result = NoResult
    /\ lock = {}
    /\ requests = <<>>
    /\ loop = NoRequest

lockrest ==
    << config, run, file_idx, all_tasks, summary, remote, attempts, resp, pos, handle, outcome,
       fs, data, found, callvars, servicevars >>

\* a pool thread takes the next task, once the main thread has prepared them
\* all, and goes one of the ways through download_single_file
StartLocked(t) ==
    /\ t # 0
    /\ todo[0] = <<>>
    /\ pc[t] = "queued"
    /\ \A u \in 1 .. (t - 1) : pc[u] # "queued"
    /\ CanStart(busy)
    /\ \E path \in CodePaths :
          /\ todo' = [todo EXCEPT ![t] = path.ops]
          /\ cause' = [cause EXCEPT ![t] = path.cause]
    /\ pc' = [pc EXCEPT ![t] = "run"]
    /\ busy' = Taken(busy, t)
    /\ started' = [started EXCEPT ![t] = @ + 1]
    /\ UNCHANGED << lockrest, mainpc, download_stats, lock >>

\* a request, a file operation or a log line
Io(t) ==
    /\ todo[t] # <<>>
    /\ Head(todo[t]) = "io"
    /\ todo' = [todo EXCEPT ![t] = Tail(@)]
    /\ UNCHANGED << lockrest, mainpc, download_stats, lock, pc, busy, started, cause >>

\* "with self.lock:" is entered
Acquire(t) ==
    /\ todo[t] # <<>>
    /\ Head(todo[t]) = "acquire"
    /\ CanAcquire(lock)
    /\ lock' = lock \cup {t}
    /\ todo' = [todo EXCEPT ![t] = Tail(@)]
    /\ UNCHANGED << lockrest, mainpc, download_stats, pc, busy, started, cause >>

\* self.download_stats[key] += 1
Add(t) ==
    /\ todo[t] # <<>>
    /\ Head(todo[t]) \in CounterKeys
    /\ download_stats' = Increment(download_stats, Head(todo[t]))
    /\ todo' = [todo EXCEPT ![t] = Tail(@)]
    /\ UNCHANGED << lockrest, mainpc, lock, pc, busy, started, cause >>

\* "with self.lock:" is left
Release(t) ==
    /\ todo[t] # <<>>
    /\ Head(todo[t]) = "release"
    /\ lock' = lock \ {t}
    /\ todo' = [todo EXCEPT ![t] = Tail(@)]
    /\ UNCHANGED << lockrest, mainpc, download_stats, pc, busy, started, cause >>

\* download_single_file returns
Return(t) ==
    /\ t # 0
    /\ pc[t] = "run"
    /\ todo[t] = <<>>
    /\ pc' = [pc EXCEPT ![t] = "done"]
    /\ busy' = Released(busy, t)
    /\ UNCHANGED << lockrest, mainpc, download_stats, lock, todo, started, cause >>

LockNext ==
    \/ \E t \in DOMAIN todo : StartLocked(t)
    \/ \E t \in DOMAIN todo : Io(t)
    \/ \E t \in DOMAIN todo : Acquire(t)
    \/ \E t \in DOMAIN todo : Add(t)
    \/ \E t \in DOMAIN todo : Release(t)
    \/ \E t \in DOMAIN todo : Return(t)

LockSpec == LockInit /\ [][LockNext]_vars

\* ------------------------------------------------- the service (main.py)
MaxRequests == 2    \* upload requests received
MaxUploads == 2     \* files of one upload request

endpoints == {"/process", "/process-folder"}

\* what the handlers schedule after a ZIP was made
cleanup ==
    << [fn |-> "shutil.rmtree", target |-> "input_dir"],
       [fn |-> "shutil.rmtree", target |-> "output_dir"],
       [fn |-> "os.remove", target |-> "zip_path"] >>

\* a request whose handler has made its two temporary directories
Received(e, n) ==
    [endpoint |-> e, uploads |-> n, saved |-> 0, at |-> "save",
     input_dir |-> TRUE, output_dir |-> TRUE, zip_path |-> FALSE,
     background_tasks |-> <<>>, response |-> "none"]

\* what is left on disk of the temporary paths of a request
Left(q) ==
    { d \in {"input_dir", "output_dir", "zip_path"} : q[d] }

\* the paths the background tasks of a request will delete
Scheduled(q) ==
    { q.background_tasks[i].target : i \in DOMAIN q.background_tasks }

\* except Exception as e: return JSONResponse(status_code=500, ...)
Raised(q) == [q EXCEPT !.response = "JSONResponse", !.at = "return"]

ServiceInit ==
    /\ Quiet
    /\ convert_files = FALSE
    /\ fs = <<>>
    /\ data = <<>>
    /\ call = NoCall
    /\ result = NoResult

servicerest ==
    << config, orch, download_stats, taskvars, fs, data, found, callvars, lockvars >>

\* a request arrives at one of the two endpoints: session_id and the two
\* tempfile.mkdtemp calls
Receive(e, n) ==
    /\ loop = NoRequest
    /\ Len(requests) < MaxRequests
    /\ requests' = Append(requests, Received(e, n))
    /\ loop' = Len(requests) + 1
    /\ UNCHANGED servicerest

\* one turn of "for file in files": the upload is copied into input_dir, or
\* open() or the copy raises
SaveUpload(r) ==
    /\ loop = r
    /\ requests[r].at = "save"
    /\ \E ok \in BOOLEAN :
          requests' = [requests EXCEPT ![r] =
              IF ok
              THEN [@ EXCEPT !.saved = @ + 1,
                             !.at = IF requests[r].saved + 1 = requests[r].uploads
                                    THEN "process" ELSE "save"]
              ELSE Raised(@)]
    /\ UNCHANGED << loop, servicerest >>

\* check_dependencies(), EvidenciasDownloader(...), downloader.process_folder(...)
RunDownloader(r) ==
    /\ loop = r
    /\ requests[r].at = "process"
    /\ \E ok \in BOOLEAN :
          requests' = [requests EXCEPT ![r] =
              IF ok THEN [@ EXCEPT !.at = "zip"] ELSE Raised(@)]
    /\ UNCHANGED << loop, servicerest >>

\* the ZIP of output_dir is written; zipfile.ZipFile(zip_path, "w") creates the
\* file, and opening it or writing an entry may raise
CreateZip(r) ==
    /\ loop = r
    /\ requests[r].at = "zip"
    /\ \E created \in BOOLEAN, ok \in BOOLEAN :
          /\ ok => created
          /\ requests' = [requests EXCEPT ![r] =
                IF ok
                THEN [@ EXCEPT !.zip_path = TRUE, !.at = "schedule"]
                ELSE Raised([@ EXCEPT !.zip_path = created])]
    /\ UNCHANGED << loop, servicerest >>

\* "if background_tasks:" adds the three tasks, then return FileResponse(...)
ScheduleCleanup(r) ==
    /\ loop = r
    /\ requests[r].at = "schedule"
    /\ requests' = [requests EXCEPT ![r] =
          [@ EXCEPT !.background_tasks = cleanup,
                    !.response = "FileResponse",
                    !.at = "return"]]
    /\ UNCHANGED << loop, servicerest >>

\* the handler has returned and the response is sent; the event loop is free
Respond(r) ==
    /\ loop = r
    /\ requests[r].at = "return"
    /\ requests' = [requests EXCEPT ![r].at = "background"]
    /\ loop' = NoRequest
    /\ UNCHANGED servicerest

\* after the response, the next background task of the request runs
RunBackground(r) ==
    /\ requests[r].at = "background"
    /\ requests[r].background_tasks # <<>>
    /\ requests' = [requests EXCEPT ![r] =
          [@ EXCEPT ![Head(requests[r].background_tasks).target] = FALSE,
                    !.background_tasks = Tail(@)]]
    /\ UNCHANGED << loop, servicerest >>

\* no background task is left: the request is over
Close(r) ==
    /\ requests[r].at = "background"
    /\ requests[r].background_tasks = <<>>
    /\ requests' = [requests EXCEPT ![r].at = "closed"]
    /\ UNCHANGED << loop, servicerest >>

ServiceNext ==
    \/ \E e \in endpoints, n \in 1 .. MaxUploads : Receive(e, n)
    \/ \E r \in DOMAIN requests : SaveUpload(r)
    \/ \E r \in DOMAIN requests : RunDownloader(r)
    \/ \E r \in DOMAIN requests : CreateZip(r)
    \/ \E r \in DOMAIN requests : ScheduleCleanup(r)
    \/ \E r \in DOMAIN requests : Respond(r)
    \/ \E r \in DOMAIN requests : RunBackground(r)
    \/ \E r \in DOMAIN requests : Close(r)

ServiceSpec == ServiceInit /\ [][ServiceNext]_vars

\* ================================================================ claims
Tasks == DOMAIN pc

TasksWith(out) == { t \in Tasks : outcome[t] = out }

\* the run is over: process_folder has returned
RunOver == mainpc = "done"

\* no other task of the run writes the temp file of t
Alone(t) == \A u \in Tasks : u # t => TempPath(all_tasks[u]) # TempPath(all_tasks[t])

\* C1: when process_folder has returned, total == successful + failed +
\* skipped, total is the number of derived tasks, and each task has incremented
\* exactly one of the three terminal counters, once: each counter is the number
\* of tasks that ended with that outcome.
C1_TotalIsSumOfOutcomes ==
    RunOver =>
        /\ download_stats.total =
               download_stats.successful + download_stats.failed + download_stats.skipped
        /\ download_stats.total = Len(all_tasks)
        /\ Len(all_tasks) > 0 =>
              /\ Tasks = 1 .. Len(all_tasks)
              /\ \A t \in Tasks : outcome[t] \in {"successful", "failed", "skipped"}
              /\ \A o \in {"successful", "failed", "skipped"} :
                    download_stats[o] = Cardinality(TasksWith(o))

C1_Witness ==
    /\ RunOver
    /\ max_workers > 1
    /\ download_stats.total > 1
    /\ download_stats.successful > 0
    /\ download_stats.failed > 0

\* the path whose presence makes download_single_file skip the task
SkipTarget(task) ==
    IF convert_files /\ NeedsConversion(original_ext(task)) THEN JpgPath(task) ELSE FilePath(task)

\* C2 as stated: in a second run against the same output folder every task
\* ends as skipped and no GET is issued.
C2_SecondRunSkipsAll ==
    run > 1 =>
        /\ \A t \in Tasks : attempts[t] = 0 /\ outcome[t] \in {"none", "skipped"}
        /\ RunOver =>
              /\ download_stats.skipped = download_stats.total
              /\ download_stats.successful = 0
              /\ download_stats.failed = 0

\* C2 (amended): in a later run against the same output folder, if the run
\* finds a non-empty file at the skip target of every task (the .jpg target of a
\* .heic/.pdf task when conversion is enabled, the original target otherwise),
\* every task ends as skipped, skipped == total, successful == 0, failed == 0,
\* and no GET is issued.
C2_SecondRunSkipsWhatIsThere ==
    (run > 1 /\ \A t \in DOMAIN all_tasks : SkipTarget(all_tasks[t]) \in found) =>
        /\ \A t \in Tasks : attempts[t] = 0 /\ outcome[t] \in {"none", "skipped"}
        /\ RunOver =>
              /\ download_stats.skipped = download_stats.total
              /\ download_stats.successful = 0
              /\ download_stats.failed = 0

C2_Witness ==
    /\ run > 1
    /\ RunOver
    /\ Len(all_tasks) > 1
    /\ \A t \in DOMAIN all_tasks : SkipTarget(all_tasks[t]) \in found
    /\ \E t \in DOMAIN all_tasks : SkipTarget(all_tasks[t]) # FilePath(all_tasks[t])
    /\ download_stats.skipped = Len(all_tasks)

\* C3: at every moment of a run, a file visible at a final target path (any
\* path but a '.tmp' one) holds the complete body of a finished download: no
\* observer sees a truncated or partially written final file.
C3_FinalFilesComplete ==
    \A p \in DOMAIN fs : ~p.tmp => data[fs[p]] = FullData

\* C4: a task whose body stream was interrupted after some bytes were written
\* has ended as failed and its '<final>.tmp' file has been removed by the time
\* the task finishes.
C4_CutStreamLeavesNoTemp ==
    \A t \in Tasks :
        (pc[t] = "done" /\ cause[t] = "stream_cut") =>
            /\ outcome[t] = "failed"
            /\ ~Exists(fs, TempPath(all_tasks[t]))

\* C5: when the verification of a download finds its temp file with zero
\* bytes, that step counts the task as failed (and as nothing else), removes
\* the temp file and renames nothing: the final path is left as it was.
C5_EmptyTempIsFailure ==
    [][\A t \in Tasks :
          LET temp_path == TempPath(all_tasks[t])
              file_path == FilePath(all_tasks[t])
          IN  ( /\ pc[t] = "write"
                /\ resp[t] # "cut"
                /\ pos[t] = BodyLen(resp[t])
                /\ pc'[t] # "write"
                /\ Exists(fs, temp_path)
                /\ data[fs[temp_path]] = {} )
              => /\ pc'[t] = "done"
                 /\ outcome'[t] = "failed"
                 /\ download_stats' = Increment(download_stats, "failed")
                 /\ ~Exists(fs', temp_path)
                 /\ Exists(fs', file_path) <=> Exists(fs, file_path)
                 /\ Exists(fs, file_path) =>
                        /\ fs'[file_path] = fs[file_path]
                        /\ data'[fs[file_path]] = data[fs[file_path]]
      ]_vars

C5_Witness ==
    \E t \in Tasks :
        /\ pc[t] = "done"
        /\ remote[t].body = "empty"
        /\ cause[t] = "empty"
        /\ outcome[t] = "failed"
        /\ ~Exists(fs, TempPath(all_tasks[t]))
        /\ ~Exists(fs, FilePath(all_tasks[t]))

\* C6: a download whose GET received a status of the forcelist on its first k
\* attempts and a 200 with a complete non-empty body on attempt k + 1, with
\* k + 1 within max_retries, ends as successful after k + 1 attempts (the disk
\* accepting the writes, and no other task of the run writing the same file).
C6_RetriedDownloadSucceeds ==
    \A t \in Tasks :
        ( /\ pc[t] = "done"
          /\ attempts[t] > 0
          /\ remote[t].status \in status_forcelist
          /\ remote[t].retryable + 1 <= max_retries
          /\ remote[t].final = "200"
          /\ remote[t].body = "full"
          /\ cause[t] # "write_error"
          /\ Alone(t) )
        => /\ outcome[t] = "successful"
           /\ attempts[t] = remote[t].retryable + 1

C6_Witness ==
    \E t \in Tasks :
        /\ pc[t] = "done"
        /\ remote[t].retryable = 2
        /\ remote[t].status = 503
        /\ attempts[t] = remote[t].retryable + 1
        /\ outcome[t] = "successful"

\* C7: a conversion of a downloaded .heic or .pdf that does not complete never
\* turns the task into a failure: the step counts conversion_failed and
\* successful once each, counts neither failed nor converted, deletes nothing,
\* and the original is still at its final path (for a task that shares its
\* target with no other task of the run).
C7_ConversionErrorIsNotFailure ==
    [][\A t \in Tasks :
          LET file_path == FilePath(all_tasks[t])
          IN  ( /\ convert_files
                /\ NeedsConversion(original_ext(all_tasks[t]))
                /\ \/ pc[t] = "post" /\ pc'[t] = "done"
                   \/ pc[t] = "remove" /\ pc'[t] = "done" /\ ~Exists(fs, file_path) )
              => /\ outcome'[t] = "successful"
                 /\ download_stats' =
                        Increment(Increment(download_stats, "conversion_failed"), "successful")
                 /\ fs' = fs
                 /\ Alone(t) => Exists(fs', file_path)
      ]_vars

C7_Witness ==
    \E t \in Tasks :
        /\ pc[t] = "done"
        /\ cause[t] = "conversion_failed"
        /\ outcome[t] = "successful"
        /\ Alone(t)
        /\ Exists(fs, FilePath(all_tasks[t]))
        /\ download_stats.conversion_failed > 0
        /\ download_stats.failed = 0

\* the branches of download_single_file that end a task on an error
ErrorCauses ==
    {"transport", "stream_cut", "write_error", "rename_error", "getsize_error",
     "empty", "temp_missing"}

\* C8: a task that fails for any reason is counted as failed and raises nothing
\* out of the pool: every task ends with one of the three outcomes, and a run
\* that dispatched tasks brings every one of them to its end and reads its
\* summary, with as many failures as tasks that met an error.
C8_FailuresAreContained ==
    /\ \A t \in Tasks :
          /\ pc[t] = "done" => outcome[t] \in {"successful", "failed", "skipped"}
          /\ cause[t] \in ErrorCauses => outcome[t] = "failed"
    /\ (RunOver /\ Len(all_tasks) > 0) =>
          /\ summary.read
          /\ Tasks = 1 .. Len(all_tasks)
          /\ \A t \in Tasks : pc[t] = "done"
          /\ summary.stats.failed = Cardinality({ t \in Tasks : cause[t] \in ErrorCauses })

C8_Witness ==
    /\ RunOver
    /\ summary.read
    /\ \E t, u \in Tasks :
          /\ cause[t] = "write_error"
          /\ cause[u] = "transport"
          /\ t # u
    /\ summary.stats.failed > 1

\* C9: the summary is read only when every dispatched task has reached its
\* outcome: once it is read no counter differs from what it read, and it holds
\* the outcome of every task.
C9_SummaryAfterAllTasks ==
    summary.read =>
        /\ Tasks = 1 .. Len(all_tasks)
        /\ \A t \in Tasks : pc[t] = "done"
        /\ summary.stats = download_stats
        /\ summary.stats.successful + summary.stats.failed + summary.stats.skipped
              = Len(all_tasks)

C9_Witness ==
    /\ summary.read
    /\ Len(all_tasks) > max_workers
    /\ summary.stats.successful > 0
    /\ summary.stats.failed > 0

\* C10: at every moment at most max_workers tasks are in progress, a task in
\* progress is held by exactly one pool thread (and a task that is not, by
\* none), and a task is taken from the queue once: never twice, and once by the
\* end of the run.
C10_PoolIsBounded ==
    /\ Cardinality(InProgress) <= max_workers
    /\ \A t \in Tasks :
          /\ Cardinality({ w \in DOMAIN busy : busy[w] = t }) = (IF t \in InProgress THEN 1 ELSE 0)
          /\ started[t] = (IF pc[t] = "queued" THEN 0 ELSE 1)
    /\ (RunOver /\ Len(all_tasks) > 0) =>
          \A t \in 1 .. Len(all_tasks) : started[t] = 1 /\ pc[t] = "done"

C10_Witness ==
    /\ Cardinality(InProgress) = max_workers
    /\ \E t \in Tasks : pc[t] = "queued"

\* the rows of the manifest carry the labels "Grupo Ñ1" and "Sesión 3"
LabelledRows ==
    /\ files # <<>>
    /\ \A i \in DOMAIN files[1].rows :
          files[1].rows[i].grupo = GroupLabel /\ files[1].rows[i].sesion = SessionLabel

\* an initial-photo task with a .heic URL, in a run with conversion enabled,
\* that no other task shares its files with, ended with a download and a
\* conversion that both succeeded
ConvertedPhoto(t) ==
    /\ LabelledRows
    /\ convert_files
    /\ all_tasks[t].tipo = "foto_inicial"
    /\ original_ext(all_tasks[t]) = HeicExt
    /\ Alone(t)
    /\ pc[t] = "done"
    /\ outcome[t] = "successful"
    /\ cause[t] # "conversion_failed"

\* <manifest>/Grupo N1/<session>_foto_inicial<ext>
PhotoAt(session, ext) ==
    [folder |-> << "m1", <<"G", "r", "u", "p", "o", " ", "N", "1">> >>,
     sesion |-> session, tipo |-> "foto_inicial", ext |-> ext, tmp |-> FALSE]

\* C11 as stated: the converted initial photo of the row "Grupo Ñ1" /
\* "Sesión 3" is at <manifest>/Grupo N1/Sesion_3_foto_inicial.jpg, no .heic is
\* next to it and converted counts it.
C11_PhotoAtUnderscoredName ==
    \A t \in Tasks :
        ConvertedPhoto(t) =>
            /\ Exists(fs, PhotoAt(<<"S", "e", "s", "i", "o", "n", "_", "3">>, JpgExt))
            /\ ~Exists(fs, PhotoAt(<<"S", "e", "s", "i", "o", "n", "_", "3">>, HeicExt))
            /\ download_stats.converted = Cardinality({ u \in Tasks : cause[u] = "converted" })
            /\ cause[t] = "converted"

\* C11 (amended): the converted initial photo of the row "Grupo Ñ1" /
\* "Sesión 3" is at <manifest>/Grupo N1/Sesion 3_foto_inicial.jpg (the space of
\* the session label is kept), complete, no .heic original is next to it, and
\* converted has counted the task exactly once.
C11_PhotoAtSanitizedName ==
    \A t \in Tasks :
        ConvertedPhoto(t) =>
            /\ ExistsNonEmpty(fs, data, PhotoAt(<<"S", "e", "s", "i", "o", "n", " ", "3">>, JpgExt))
            /\ JpgPath(all_tasks[t]) = PhotoAt(<<"S", "e", "s", "i", "o", "n", " ", "3">>, JpgExt)
            /\ ~Exists(fs, PhotoAt(<<"S", "e", "s", "i", "o", "n", " ", "3">>, HeicExt))
            /\ ~Exists(fs, FilePath(all_tasks[t]))
            /\ download_stats.converted = Cardinality({ u \in Tasks : cause[u] = "converted" })
            /\ cause[t] = "converted"

C11_Witness ==
    \E t \in Tasks :
        /\ ConvertedPhoto(t)
        /\ Len(all_tasks) = 1
        /\ run = 1
        /\ download_stats.converted = 1
        /\ Exists(fs, PhotoAt(<<"S", "e", "s", "i", "o", "n", " ", "3">>, JpgExt))

\* C12: with convert_files off every downloaded file stays as it was
\* downloaded: converted and conversion_failed are 0 throughout, no task is in
\* a conversion, every successful task has its file at its original name, and
\* a .jpg in a fresh output folder is the download of a task, never a
\* conversion.
C12_NoConversionWhenDisabled ==
    ~convert_files =>
        /\ download_stats.converted = 0
        /\ download_stats.conversion_failed = 0
        /\ \A t \in Tasks :
              /\ pc[t] # "remove"
              /\ cause[t] \notin {"converted", "conversion_failed", "converted_exists"}
              /\ outcome[t] = "successful" => Exists(fs, FilePath(all_tasks[t]))
        /\ run = 1 =>
              \A p \in DOMAIN fs :
                  (p.ext = JpgExt /\ ~p.tmp) =>
                      \E u \in Tasks : original_ext(all_tasks[u]) = JpgExt /\ FilePath(all_tasks[u]) = p

C12_Witness ==
    /\ ~convert_files
    /\ RunOver
    /\ \E t, u \in Tasks :
          /\ original_ext(all_tasks[t]) = HeicExt
          /\ original_ext(all_tasks[u]) = PdfExt
          /\ outcome[t] = "successful"
          /\ outcome[u] = "successful"
          /\ Exists(fs, FilePath(all_tasks[t]))
          /\ Exists(fs, FilePath(all_tasks[u]))
          /\ ~Exists(fs, JpgPath(all_tasks[t]))
          /\ ~Exists(fs, JpgPath(all_tasks[u]))

\* the characters a sanitized name may not contain
ForbiddenChars == {"<", ">", ":", "\"", "/", "\\", "|", "?", "*"}

\* C13: for every label, the empty and the missing one included,
\* clean_filename returns a name that is not empty, has at most 200
\* characters and holds none of the characters < > : " / \ | ? *
C13_SanitizedNameIsSafe ==
    (call.fn = "clean_filename" /\ result.done) =>
        /\ result.value # <<>>
        /\ Len(result.value) <= 200
        /\ \A i \in DOMAIN result.value : result.value[i] \notin ForbiddenChars

C13_Witness ==
    /\ call.fn = "clean_filename"
    /\ result.done
    /\ Len(call.arg) > 200
    /\ call.arg[201] \in ForbiddenChars
    /\ Len(result.value) = 200

\* the tasks of the manifests of a folder that can be read, in the order of
\* the folder
RECURSIVE TasksOfReadable(_)
TasksOfReadable(listing) ==
    IF listing = <<>> THEN <<>>
    ELSE LET e == Head(listing)
         IN  (IF e.isfile /\ e.ext \in {".csv", ".xlsx", ".xls"} /\ e.readable
              THEN prepare_download_tasks(e.rows, e.name) ELSE <<>>)
             \o TasksOfReadable(Tail(listing))

\* a manifest of the folder that read_file gets no table from
Unreadable(e) == e.isfile /\ e.ext \in {".csv", ".xlsx", ".xls"} /\ ~e.readable

\* C14: a manifest that cannot be parsed contributes no task and no change
\* of total, and does not end the run: the tasks the run dispatches are those
\* of every manifest that can be read, total counts them, and all of them are
\* run to their end.
C14_UnreadableManifestIsSkipped ==
    /\ mainpc \in {"pool", "stats", "done"} =>
          /\ input_exists => all_tasks = TasksOfReadable(files)
          /\ download_stats.total = Len(all_tasks)
          /\ Len(all_tasks) > 0 => Tasks = 1 .. Len(all_tasks)
    /\ (RunOver /\ Len(all_tasks) > 0) => \A t \in Tasks : pc[t] = "done"
    /\ (mainpc = "files" /\ file_idx > 1) =>
          all_tasks = TasksOfReadable(SubSeq(files_to_process(files), 1, file_idx - 1))

C14_Witness ==
    /\ RunOver
    /\ Len(files) = 3
    /\ ~Unreadable(files[1])
    /\ Unreadable(files[2])
    /\ ~Unreadable(files[3])
    /\ Len(all_tasks) = 2
    /\ all_tasks[1].folder_path # all_tasks[2].folder_path
    /\ \A t \in Tasks : pc[t] = "done"

\* C15: when the input folder does not exist, or holds no regular file with
\* the extension .csv, .xlsx or .xls, process_folder returns with no task
\* derived or dispatched, no GET, every counter at zero and no summary.
C15_NothingToProcess ==
    (~input_exists \/ \A i \in DOMAIN files : ~(files[i].isfile /\ files[i].ext \in {".csv", ".xlsx", ".xls"})) =>
        /\ mainpc \in {"start", "done"}
        /\ all_tasks = <<>>
        /\ pc = <<>>
        /\ attempts = <<>>
        /\ download_stats = ZeroStats
        /\ ~summary.read
        /\ fs = <<>>

C15_Witness ==
    /\ RunOver
    /\ input_exists
    /\ Len(files) = 2
    /\ \E i \in DOMAIN files : files[i].ext = ".txt" /\ files[i].rows # <<>>
    /\ \E i \in DOMAIN files : ~files[i].isfile
    /\ all_tasks = <<>>
    /\ run = 2

\* the kinds of the three recognized slots, in slot order
SlotKinds == << "asistencia", "foto_inicial", "foto_final" >>

\* the filled slots of a table: (row, slot) with a non-empty cell
FilledSlots(rows) ==
    { p \in (DOMAIN rows) \X (1 .. 3) : rows[p[1]].cells[p[2]].present }

\* the place of a filled slot among the filled slots, by row and then by slot
SlotRank(rows, p) ==
    1 + Cardinality({ q \in FilledSlots(rows) : q[1] < p[1] \/ (q[1] = p[1] /\ q[2] < p[2]) })

\* C16: prepare_download_tasks emits exactly one task per recognized slot
\* whose cell is non-empty, row by row and in slot order (so 0 to 3 tasks per
\* row), and increments total by the number of tasks emitted; a table with no
\* filled slot yields no task and leaves total as it was.
C16_OneTaskPerFilledSlot ==
    (call.fn = "prepare_download_tasks" /\ result.done) =>
        LET rows == call.arg
            tasks == result.value
        IN  /\ Len(tasks) = Cardinality(FilledSlots(rows))
            /\ Len(tasks) <= 3 * Len(rows)
            /\ download_stats.total = Len(tasks)
            /\ \A p \in FilledSlots(rows) :
                  /\ tasks[SlotRank(rows, p)].url = rows[p[1]].cells[p[2]]
                  /\ tasks[SlotRank(rows, p)].tipo = SlotKinds[p[2]]
            /\ FilledSlots(rows) = {} => tasks = <<>> /\ download_stats = ZeroStats

C16_Witness ==
    /\ call.fn = "prepare_download_tasks"
    /\ result.done
    /\ Len(call.arg) = 2
    /\ Cardinality(FilledSlots(call.arg)) = 4
    /\ \E i \in DOMAIN call.arg : \A k \in 1 .. 3 : call.arg[i].cells[k].present
    /\ Len(result.value) = 4
    /\ download_stats.total = 4

\* C17: post_process_file applied to a .jpg file, whether given or returned
\* by an earlier application, returns the same path, converts and deletes
\* nothing and leaves every counter as it was; so applying it to the .jpg it
\* returned gives that .jpg again.
C17_NormalizedFilePassesThrough ==
    /\ [](result.applied = 2 /\ result.value.ext = JpgExt => result.again = result.value)
    /\ [][ ( /\ call.fn = "post_process_file"
             /\ result'.applied = result.applied + 1
             /\ Given.ext = JpgExt )
           => /\ (IF result.applied = 0 THEN result'.value ELSE result'.again) = Given
              /\ fs' = fs
              /\ data' = data
              /\ download_stats' = download_stats
         ]_vars

C17_Witness ==
    /\ call.fn = "post_process_file"
    /\ convert_files
    /\ result.applied = 2
    /\ call.arg.ext = HeicExt
    /\ result.value.ext = JpgExt
    /\ result.again = result.value
    /\ download_stats.converted = 1
    /\ DOMAIN fs = {result.value}

\* C18: the checks download_single_file starts with end the task as skipped,
\* with no GET, exactly when (a) conversion is enabled, the extension of the
\* task is .heic or .pdf and the .jpg target exists with a size above zero, or
\* (b) the original target exists with a size above zero and needs no
\* conversion; (a) is what is looked at first. In every other case, a file of
\* size zero and an original that still needs conversion included, the task
\* goes on to its GET.
C18_SkipsExactlyWhatIsThere ==
    [][\A t \in Tasks :
          LET task == all_tasks[t]
              converted_there ==
                  /\ convert_files
                  /\ task.filename.ext \in {HeicExt, PdfExt}
                  /\ JpgPath(task) \in DOMAIN fs
                  /\ data[fs[JpgPath(task)]] # {}
              original_there ==
                  /\ FilePath(task) \in DOMAIN fs
                  /\ data[fs[FilePath(task)]] # {}
                  /\ ~(convert_files /\ task.filename.ext \in {HeicExt, PdfExt})
          IN  (pc[t] = "queued" /\ pc'[t] # "queued") =>
                 /\ attempts'[t] = 0
                 /\ (pc'[t] = "done" /\ outcome'[t] = "skipped") <=> (converted_there \/ original_there)
                 /\ ~(converted_there \/ original_there) => pc'[t] = "get" /\ outcome'[t] = "none"
                 /\ converted_there => cause'[t] = "converted_exists"
                 /\ fs' = fs /\ data' = data
      ]_vars

C18_Witness ==
    \E t \in Tasks :
        /\ run = 1
        /\ pc[t] = "get"
        /\ convert_files
        /\ original_ext(all_tasks[t]) = PdfExt
        /\ Exists(fs, JpgPath(all_tasks[t]))
        /\ data[fs[JpgPath(all_tasks[t])]] = {}
        /\ ExistsNonEmpty(fs, data, FilePath(all_tasks[t]))

\* the URL of the task is reachable and answers with a complete, non-empty body
Reachable(t) ==
    /\ remote[t].final = "200"
    /\ remote[t].body = "full"
    /\ remote[t].retryable <= max_retries

\* C19: the outcome of a task is not changed by another task of the run: any
\* two tasks of a run whose URLs are both reachable with non-empty bodies (the
\* disk taking every write) both end as successful or skipped, whatever the
\* interleaving of the workers.
C19_TasksDoNotDisturbEachOther ==
    \A t, u \in Tasks :
        ( /\ t # u
          /\ pc[t] = "done" /\ pc[u] = "done"
          /\ Reachable(t) /\ Reachable(u)
          /\ cause[t] # "write_error" /\ cause[u] # "write_error" )
        => /\ outcome[t] \in {"successful", "skipped"}
           /\ outcome[u] \in {"successful", "skipped"}

\* C20: every increment of a counter is made by a thread that holds the lock,
\* at most one thread holds the lock at any time, and a thread that holds the
\* lock makes no request and no file operation.
C20_CountersUnderOneLock ==
    /\ [](Cardinality(lock) <= 1)
    /\ [][ /\ \A t \in DOMAIN todo :
                (todo[t] # <<>> /\ todo'[t] = Tail(todo[t])) =>
                    /\ Head(todo[t]) \in {"total", "successful", "failed", "skipped",
                                          "converted", "conversion_failed"} => t \in lock
                    /\ Head(todo[t]) = "io" => t \notin lock
           /\ download_stats' # download_stats =>
                \E t \in lock, key \in DOMAIN download_stats :
                    /\ todo'[t] = Tail(todo[t])
                    /\ download_stats' = [download_stats EXCEPT ![key] = @ + 1]
         ]_vars

C20_Witness ==
    \E t, u \in DOMAIN todo :
        /\ t # 0 /\ u # 0
        /\ lock = {t}
        /\ todo[t] # <<>> /\ Head(todo[t]) = "release"
        /\ todo[u] # <<>> /\ Head(todo[u]) = "acquire"
        /\ download_stats.successful + download_stats.failed + download_stats.skipped = 1

\* C21: a task makes at most 1 + max_retries GET attempts; a task all of whose
\* attempts within that cap received a status of the forcelist has made exactly
\* 1 + max_retries attempts, retries no more and has ended as failed.
C21_RetriesAreCapped ==
    \A t \in Tasks :
        /\ attempts[t] <= 1 + max_retries
        /\ ( /\ attempts[t] > 0
             /\ remote[t].status \in {429, 500, 502, 503, 504}
             /\ remote[t].retryable >= 1 + max_retries )
           => /\ attempts[t] = 1 + max_retries
              /\ pc[t] = "done"
              /\ outcome[t] = "failed"
              /\ cause[t] = "transport"

C21_Witness ==
    \E t \in Tasks :
        /\ pc[t] = "done"
        /\ remote[t].status = 503
        /\ remote[t].retryable = max_retries + 1
        /\ attempts[t] = max_retries + 1
        /\ outcome[t] = "failed"
        /\ ~Exists(fs, FilePath(all_tasks[t]))

\* C22: under fair scheduling every dispatched task reaches a terminal outcome
\* and the run ends with its summary emitted, also with more tasks than pool
\* threads; when the summary is emitted every task has been run once and none
\* is left queued or in progress.
C22_RunCompletes ==
    /\ [](summary.read =>
            \A t \in Tasks :
                /\ pc[t] = "done"
                /\ started[t] = 1
                /\ outcome[t] \in {"successful", "failed", "skipped"})
    /\ \A t \in 1 .. MaxRows :
            (t \in Tasks /\ pc[t] = "queued")
                ~> (t \in Tasks /\ pc[t] = "done"
                      /\ outcome[t] \in {"successful", "failed", "skipped"})
    /\ (mainpc = "pool") ~> (mainpc = "done" /\ summary.read)

C22_Witness ==
    /\ mainpc = "done"
    /\ summary.read
    /\ Len(all_tasks) > max_workers
    /\ \A t \in Tasks : pc[t] = "done" /\ started[t] = 1
    /\ \E t \in Tasks : outcome[t] = "successful"
    /\ \E t \in Tasks : outcome[t] = "failed"

\* C23: when the run is over, converted and conversion_failed each count the
\* tasks that ended that way, every one of those tasks is counted as successful
\* (none is skipped or failed), no task is under both counters, and so
\* converted + conversion_failed <= successful.
C23_ConversionsAreSuccesses ==
    RunOver =>
        LET converted == { t \in Tasks : cause[t] = "converted" }
            conversion_failed == { t \in Tasks : cause[t] = "conversion_failed" }
        IN  /\ download_stats.converted = Cardinality(converted)
            /\ download_stats.conversion_failed = Cardinality(conversion_failed)
            /\ (converted \cup conversion_failed) \subseteq TasksWith("successful")
            /\ download_stats.successful = Cardinality(TasksWith("successful"))
            /\ download_stats.converted + download_stats.conversion_failed
                  <= download_stats.successful

C23_Witness ==
    /\ RunOver
    /\ download_stats.converted = 1
    /\ download_stats.conversion_failed = 1
    /\ download_stats.successful = 2
    /\ \E t \in Tasks : cause[t] = "converted" /\ outcome[t] = "successful"

\* C24: the extension get_file_extension derives from a URL is empty, or starts
\* with a dot, has at most 10 characters and holds no '/', so that the file
\* name made of it is one path component; what follows the last '.' being
\* longer than 10 characters gives the empty extension.
C24_ExtensionIsOneComponent ==
    (call.fn = "get_file_extension" /\ result.done) =>
        LET ext == result.value
            url == UrlOf(call.arg)
        IN  /\ \/ ext = <<>>
               \/ /\ Len(ext) <= MaxExtLen
                  /\ ext[1] = "."
                  /\ \A i \in DOMAIN ext : ext[i] # "/"
            /\ Len(url.suffix) > MaxExtLen => ext = <<>>

\* C25: whatever the response of an upload request (the archive or the error
\* payload), when the handler returns the deletion of its two temporary
\* directories, and of the archive if there is one, is scheduled, and when the
\* request is over none of them is left.
C25_EveryRequestCleansUp ==
    \A r \in DOMAIN requests :
        /\ requests[r].at = "return" => Left(requests[r]) \subseteq Scheduled(requests[r])
        /\ requests[r].at = "closed" => Left(requests[r]) = {}

====
